---- MODULE Spec2Model ----
(***************************************************************************)
(* State-machine model of the vault <-> Google Drive sync engine of the    *)
(* WorldEdit Obsidian plugin: syncVaultToDrive (push) and syncDriveToVault *)
(* (pull), with validateAuthTokens and validateDriveFolder.                *)
(*                                                                         *)
(* Granularity.  JavaScript runs one continuation at a time; control       *)
(* changes hands at an await.  One action of the model is: the remote      *)
(* store (or the local store) serves the request a task is awaiting, and   *)
(* the task's continuation runs up to its next await.  Tasks started by    *)
(* the same Promise.all interleave freely at that granularity.  A request  *)
(* is logged when it is served.                                            *)
(*                                                                         *)
(* Paths are sequences of segments (<<"a", "x.md">> is a/x.md), so that    *)
(* split('/') and join('/') are SubSeq and Append.                         *)
(***************************************************************************)
EXTENDS Integers, Sequences, FiniteSets, TLC

VARIABLES
    now,            \* wall clock (ms), advanced by user events and sync starts
    localMtime,     \* vault: path -> mtime, 0 when there is no file at the path
    localFolders,   \* vault: set of folder paths that exist
    vaultRecord,    \* settings.sync.vaultRecord: path -> VaultFileRecord
    lastSync,       \* settings.sync.lastSync, 0 when never set
    accessToken,    \* settings.auth.accessToken
    accessExpiry,   \* settings.auth.accessExpiry, as a time (ms)
    drive,          \* remote store: sequence of objects, an object's id is its index
    phase,          \* per session: where the sync function is
    dir,            \* per session: "push" or "pull"
    token,          \* per session: const accessToken
    vaultFolderId,  \* per session: const vaultFolderId
    files,          \* per session: const files (push) / localFiles (pull sweep)
    batchAt,        \* per session: loop index i of the batch loop
    task,           \* per session: path -> state of the batch.map task of the path
    del,            \* per session: path -> state of the deletePromises task
    folderQueue,    \* per session: pull traversal queue
    listing,        \* per session: states of the currentBatch.map listing tasks
    driveFileMap,   \* per session: path -> remote file id
    drivePaths,     \* per session: Array.from(driveFileMap.keys())
    reqs,           \* history, per session: the requests served
    failed,         \* history, per session: the item failures
    made,           \* history, per session: ids of the objects it created
    recAtStart,     \* history, per session: vaultRecord when the sync started
    basis,          \* history, per session: prev when the sync started
    prev,           \* history: the last sync, if it completed and the vault was
                    \* not edited since: its direction, failures and final record
    syncs,          \* number of sync invocations so far
    envOps,         \* number of user events so far
    faults          \* number of injected request failures so far

envVars  == <<now, localMtime, localFolders, accessToken, accessExpiry>>
sessVars == <<phase, dir, token, vaultFolderId, files, batchAt, task, del>>
pullVars == <<folderQueue, listing, driveFileMap, drivePaths>>
histVars == <<reqs, failed, made, recAtStart, basis, prev>>
cntVars  == <<syncs, envOps, faults>>
vars == <<envVars, vaultRecord, lastSync, drive, sessVars, pullVars, histVars, cntVars>>

----------------------------------------------------------------------------
\* Bounds of the model.
MaxSyncs   == 2   \* sync invocations (button clicks)
MaxEnvOps  == 1   \* user events between syncs
MaxFaults  == 1   \* failing requests injected (error responses, network errors)
MaxObjects == 4   \* objects the remote store can hold
PageSize   == 2   \* files in one page of a folder listing
TokenLife  == 3   \* lifetime of an access token, in clock ticks
MaxItems   == 12  \* files of the large vault (SpecBatch)

\* const CONCURRENCY_LIMIT = 5
CONCURRENCY_LIMIT == 5

Slots == {1, 2}              \* sync sessions (invocations in progress)
RootId == 0                  \* settings.sync.selectedFolder.id
Undef == -1                  \* the JavaScript value undefined, as an id
vaultName == "V"             \* settings.sync.vaultName

PathAX == <<"a", "x.md">>
PathAY == <<"a", "y.md">>
PathZ  == <<"z.md">>
PathDeep == <<"a", "b", "w.md">>
\* the paths of the small vault; the large vault also has the top-level
\* files "4", "5", ...; the deep vault has a file two folders down
CorePaths == {PathAX, PathAY, PathZ}
\* enumeration order of getFiles()
PathOrder ==
    [k \in 1..(MaxItems + 1) |->
        IF k = 1 THEN PathAX ELSE IF k = 2 THEN PathAY ELSE IF k = 3 THEN PathZ
        ELSE IF k <= MaxItems THEN <<ToString(k)>> ELSE PathDeep]
Paths == {PathOrder[i] : i \in 1..Len(PathOrder)}
\* the position of a path in the enumeration
IndexOf(p) == CHOOSE k \in 1..Len(PathOrder) : PathOrder[k] = p

NoRec == [gdriveId |-> Undef, lastModified |-> -1]   \* vaultRecord[path] === undefined
NoTask == [pc |-> "none", seg |-> 0, cur |-> Undef, mt |-> 0, rec |-> NoRec,
           kind |-> "none", had |-> FALSE, localMod |-> 0]
NoDel == [pc |-> "none", id |-> Undef]

Min(a, b) == IF a < b THEN a ELSE b
Range(f) == {f[i] : i \in DOMAIN f}

\* DEFAULT_SETTINGS.sync.vaultRecord: {}
EmptyRecord == [q \in {} |-> NoRec]
\* what the last completed sync left, when nothing was edited in the vault since
NoPrev == [kind |-> "none", failed |-> {}, rec |-> EmptyRecord, vfid |-> Undef, at |-> 0]

\* settings.sync.vaultRecord[path] = r
Upsert(f, p, r) == [q \in DOMAIN f \cup {p} |-> IF q = p THEN r ELSE f[q]]
\* delete settings.sync.vaultRecord[path]
Remove(f, p) == [q \in DOMAIN f \ {p} |-> f[q]]

\* settings.sync.vaultRecord[path]
RecordOf(p) == IF p \in DOMAIN vaultRecord THEN vaultRecord[p] ELSE NoRec

\* file.path.split('/'): pathParts after pop(), and fileName
PathParts(p) == SubSeq(p, 1, Len(p) - 1)
FileName(p) == p[Len(p)]

\* app.vault.getFiles()
GetFiles == SelectSeq(PathOrder, LAMBDA p : localMtime[p] > 0)

----------------------------------------------------------------------------
\* The remote store (Google Drive v3), as the requests of the code see it.

RECURSIVE Visible(_)
\* trashed = false: the object and every ancestor is neither trashed nor deleted
Visible(id) ==
    \/ id = RootId
    \/ /\ id \in 1..Len(drive)
       /\ drive[id].state = "live"
       /\ Visible(drive[id].parent)

IsFolder(id) == id = RootId \/ (id \in 1..Len(drive) /\ drive[id].kind = "folder")

\* (mutant of SearchFolders: the query without "and trashed=false")
SearchFoldersTrashed(parent, name) ==
    {id \in 1..Len(drive) :
        /\ drive[id].kind = "folder"
        /\ drive[id].name = name
        /\ drive[id].parent = parent
        /\ drive[id].state # "deleted"}

\* q = name='..' and '<parent>' in parents and mimeType=folder and trashed=false
SearchFolders(parent, name) ==
    {id \in 1..Len(drive) :
        /\ drive[id].kind = "folder"
        /\ drive[id].name = name
        /\ drive[id].parent = parent
        /\ Visible(id)}

\* POST files: the store accepts a create under a visible folder while it has room
CanCreate(parent) == IsFolder(parent) /\ Visible(parent) /\ Len(drive) < MaxObjects

NewObject(name, parent, kind) ==
    [name |-> name, parent |-> parent, kind |-> kind, mtime |-> now, state |-> "live"]

\* PATCH / DELETE / GET files/<id>: the id names an object that was not deleted
Exists(id) == id \in 1..Len(drive) /\ drive[id].state # "deleted"

\* What a request of session s can come back with: "ok" (the store's answer),
\* "error" (a response that reports an error) or "throw" (fetch rejects).
\* A request carrying 'Bearer undefined' is answered with an error.
Outcomes(s) ==
    IF token[s] = "good"
    THEN {"ok"} \cup (IF faults < MaxFaults THEN {"error", "throw"} ELSE {})
    ELSE {"error"}

Fault(s, out) == IF out # "ok" /\ token[s] = "good" THEN faults + 1 ELSE faults

----------------------------------------------------------------------------
Terminal == {"none", "skipped", "done", "failed", "threw"}
TasksResolved(s) == \A p \in Paths : task[s][p].pc \in Terminal /\ del[s][p].pc \in Terminal
Idle(s) == phase[s] \in {"idle", "done", "aborted"} /\ TasksResolved(s)
Quiescent == \A s \in Slots : Idle(s)

Log(s, r) == reqs' = [reqs EXCEPT ![s] = @ \cup {r}]
Fail(s, f) == failed' = [failed EXCEPT ![s] = @ \cup {f}]

\* no sync was started yet
InitSessions ==
    /\ phase = [s \in Slots |-> "idle"]
    /\ dir = [s \in Slots |-> "none"]
    /\ token = [s \in Slots |-> "none"]
    /\ vaultFolderId = [s \in Slots |-> Undef]
    /\ files = [s \in Slots |-> <<>>]
    /\ batchAt = [s \in Slots |-> 0]
    /\ task = [s \in Slots |-> [p \in Paths |-> NoTask]]
    /\ del = [s \in Slots |-> [p \in Paths |-> NoDel]]
    /\ folderQueue = [s \in Slots |-> <<>>]
    /\ listing = [s \in Slots |-> <<>>]
    /\ driveFileMap = [s \in Slots |-> <<>>]
    /\ drivePaths = [s \in Slots |-> <<>>]
    /\ reqs = [s \in Slots |-> {}]
    /\ failed = [s \in Slots |-> {}]
    /\ made = [s \in Slots |-> {}]
    /\ recAtStart = [s \in Slots |-> EmptyRecord]
    /\ basis = [s \in Slots |-> NoPrev]
    /\ prev = NoPrev

\* The small vault: some of the core paths exist, nothing was synced yet.
Init ==
    /\ now = 1
    /\ \E g \in [CorePaths -> {0, 1}] :
          localMtime = [p \in Paths |-> IF p \in CorePaths THEN g[p] ELSE 0]
    /\ localFolders = {PathParts(p) : p \in {q \in Paths : localMtime[q] > 0 /\ Len(q) > 1}}
    /\ vaultRecord = EmptyRecord
    /\ lastSync = 0
    /\ accessToken = "good"
    /\ accessExpiry = now + TokenLife
    /\ drive = <<>>
    /\ InitSessions
    /\ syncs = 0
    /\ envOps = 0
    /\ faults = 0

----------------------------------------------------------------------------
\* (mutant of TokenExpired: the comparison made strict)
TokenExpiredStrict(t, expiry) == expiry # Undef /\ t > expiry

\* const tokenExpired = now >= new Date(settings.auth.accessExpiry); the date
\* of an undefined expiry is invalid, and no time is >= an invalid date
TokenExpired(t, expiry) == expiry # Undef /\ t >= expiry

\* validateAuthTokens, up to its first await: a token that is not expired is
\* returned as it is, an expired one starts the refresh exchange.
StartSync(s, d) ==
    /\ Idle(s)
    /\ syncs < MaxSyncs
    /\ syncs' = syncs + 1
    /\ now' = now + 1
    /\ dir' = [dir EXCEPT ![s] = d]
    /\ phase' = [phase EXCEPT ![s] =
          IF TokenExpired(now', accessExpiry) THEN "refresh" ELSE "vault_search"]
    /\ token' = [token EXCEPT ![s] =
          IF TokenExpired(now', accessExpiry) THEN "none" ELSE accessToken]
    /\ vaultFolderId' = [vaultFolderId EXCEPT ![s] = Undef]
    /\ files' = [files EXCEPT ![s] = <<>>]
    /\ batchAt' = [batchAt EXCEPT ![s] = 0]
    /\ task' = [task EXCEPT ![s] = [p \in Paths |-> NoTask]]
    /\ del' = [del EXCEPT ![s] = [p \in Paths |-> NoDel]]
    /\ folderQueue' = [folderQueue EXCEPT ![s] = <<>>]
    /\ listing' = [listing EXCEPT ![s] = <<>>]
    /\ driveFileMap' = [driveFileMap EXCEPT ![s] = <<>>]
    /\ drivePaths' = [drivePaths EXCEPT ![s] = <<>>]
    /\ reqs' = [reqs EXCEPT ![s] = {}]
    /\ failed' = [failed EXCEPT ![s] = {}]
    /\ made' = [made EXCEPT ![s] = {}]
    /\ recAtStart' = [recAtStart EXCEPT ![s] = vaultRecord]
    /\ basis' = [basis EXCEPT ![s] = prev]
    /\ prev' = NoPrev
    /\ UNCHANGED <<localMtime, localFolders, accessToken, accessExpiry, vaultRecord,
                   lastSync, drive, envOps, faults>>

StartPush(s) == StartSync(s, "push")
StartPull(s) == StartSync(s, "pull")

\* validateAuthTokens: the refresh exchange with the token service.  The
\* fields of the response replace the credentials whatever they are; an
\* error response leaves them undefined, and new Date(undefined) is an
\* invalid date that no later "now" is >= to.
Refresh(s) ==
    /\ phase[s] = "refresh"
    /\ \E out \in {"ok"} \cup (IF faults < MaxFaults THEN {"error", "throw"} ELSE {}) :
        /\ faults' = IF out = "ok" THEN faults ELSE faults + 1
        /\ Log(s, <<"refresh", <<>>, 0>>)
        /\ IF out = "throw"
           THEN /\ phase' = [phase EXCEPT ![s] = "aborted"]
                /\ Fail(s, <<"auth", <<>>>>)
                /\ UNCHANGED <<accessToken, accessExpiry, token>>
           ELSE /\ accessToken' = IF out = "ok" THEN "good" ELSE "undefined"
                /\ accessExpiry' = IF out = "ok" THEN now + TokenLife ELSE Undef
                /\ token' = [token EXCEPT ![s] = accessToken']
                /\ phase' = [phase EXCEPT ![s] = "vault_search"]
                /\ IF out = "ok" THEN UNCHANGED failed ELSE Fail(s, <<"auth", <<>>>>)
    /\ UNCHANGED <<now, localMtime, localFolders, vaultRecord, lastSync, drive,
                   dir, vaultFolderId, files, batchAt, task, del, pullVars,
                   made, recAtStart, basis, prev, syncs, envOps>>

----------------------------------------------------------------------------
\* syncVaultToDrive: the batch loop.

\* (mutant of SkipPush: any recorded file is skipped)
SkipPushAnyRecord(rec, mt) == rec # NoRec

\* (mutant of SkipPush: the comparison made strict)
SkipPushStrict(rec, mt) == rec # NoRec /\ rec.lastModified > mt

\* if (fileRecord?.lastModified >= fileModTime): skip the unchanged file
SkipPush(rec, mt) == rec # NoRec /\ rec.lastModified >= mt

\* (mutant of IsUpdate: every upload is a create)
IsUpdateNever(rec) == FALSE

\* const isUpdate = !!fileRecord?.gdriveId
IsUpdate(rec) == rec # NoRec /\ rec.gdriveId # Undef

\* One batch.map callback, run up to its first await: the skip test, then the
\* first folder search of a nested file, or the upload of a top-level one.
StartUpload(p, vfid) ==
    LET mt == localMtime[p]
        rec == RecordOf(p)
    IN  IF SkipPush(rec, mt)
        THEN [NoTask EXCEPT !.pc = "skipped", !.mt = mt, !.rec = rec]
        ELSE [NoTask EXCEPT !.pc = IF Len(PathParts(p)) > 0 THEN "search" ELSE "upload",
                            !.seg = IF Len(PathParts(p)) > 0 THEN 1 ELSE 0,
                            !.cur = vfid, !.mt = mt, !.rec = rec]

\* (mutant of Batch: the slice one item longer)
BatchWide(fs, i) == SubSeq(fs, i + 1, Min(i + CONCURRENCY_LIMIT + 1, Len(fs)))

\* files.slice(i, i + CONCURRENCY_LIMIT)
Batch(fs, i) == SubSeq(fs, i + 1, Min(i + CONCURRENCY_LIMIT, Len(fs)))

\* (mutant of NextSegment: the returned id is not carried to the next segment)
NextSegmentStale(t, p, id) ==
    IF t.seg < Len(PathParts(p))
    THEN [t EXCEPT !.seg = @ + 1, !.pc = "search"]
    ELSE [t EXCEPT !.cur = id, !.pc = "upload"]

\* for (const folderName of pathParts): the loop goes on to the next segment
\* with whatever validateDriveFolder returned, then to the upload
NextSegment(t, p, id) ==
    IF t.seg < Len(PathParts(p))
    THEN [t EXCEPT !.seg = @ + 1, !.cur = id, !.pc = "search"]
    ELSE [t EXCEPT !.cur = id, !.pc = "upload"]

\* A rejected callback rejects Promise.all, and the await of it throws out of
\* the sync function; the callbacks already started keep running.
Rejected(s) == [phase EXCEPT ![s] = "aborted"]

\* const files = app.vault.getFiles(), and the first turn of the batch loop
BeginPush(s, vfid) ==
    LET fs == GetFiles
    IN  /\ files' = [files EXCEPT ![s] = fs]
        /\ batchAt' = [batchAt EXCEPT ![s] = 0]
        /\ task' = [task EXCEPT ![s] =
              [p \in Paths |-> IF p \in Range(Batch(fs, 0))
                               THEN StartUpload(p, vfid) ELSE NoTask]]
        /\ phase' = [phase EXCEPT ![s] = "batch"]
        /\ UNCHANGED pullVars

\* const currentBatch = folderQueue.splice(0, CONCURRENCY_LIMIT), and the
\* currentBatch.map callbacks, each up to its first list request
ListBatch(s, queue) ==
    /\ folderQueue' = [folderQueue EXCEPT ![s] =
          SubSeq(queue, CONCURRENCY_LIMIT + 1, Len(queue))]
    /\ listing' = [listing EXCEPT ![s] =
          [k \in 1..Min(CONCURRENCY_LIMIT, Len(queue)) |->
              [item |-> queue[k], page |-> 0, got |-> <<>>, pc |-> "list"]]]

\* const folderQueue = [{ id: vaultFolderId, path: [] }], and the first turn
\* of the traversal loop
BeginPull(s, vfid) ==
    /\ ListBatch(s, <<[id |-> vfid, path |-> <<>>]>>)
    /\ phase' = [phase EXCEPT ![s] = "traverse"]
    /\ UNCHANGED <<files, batchAt, task, driveFileMap, drivePaths>>

AfterVaultFolder(s, vfid) ==
    /\ vaultFolderId' = [vaultFolderId EXCEPT ![s] = vfid]
    /\ IF dir[s] = "push" THEN BeginPush(s, vfid) ELSE BeginPull(s, vfid)

\* validateDriveFolder(accessToken, rootFolderId, vaultName): the search.
\* An error response has no files array, and searchData.files.length throws.
VaultSearch(s) ==
    /\ phase[s] = "vault_search"
    /\ \E out \in Outcomes(s) :
        /\ faults' = Fault(s, out)
        /\ Log(s, <<"search", <<vaultName>>, RootId>>)
        /\ IF out = "ok"
           THEN /\ UNCHANGED failed
                /\ IF SearchFolders(RootId, vaultName) # {}
                   THEN \E id \in SearchFolders(RootId, vaultName) : AfterVaultFolder(s, id)
                   ELSE /\ phase' = [phase EXCEPT ![s] = "vault_create"]
                        /\ UNCHANGED <<vaultFolderId, files, batchAt, task, pullVars>>
           ELSE /\ phase' = Rejected(s)
                /\ Fail(s, <<"throw", <<vaultName>>>>)
                /\ UNCHANGED <<vaultFolderId, files, batchAt, task, pullVars>>
    /\ UNCHANGED <<envVars, vaultRecord, lastSync, drive, dir, token, del,
                   made, recAtStart, basis, prev, syncs, envOps>>

\* validateDriveFolder(accessToken, rootFolderId, vaultName): the create.
\* A response without id is reported and undefined is returned to the caller.
VaultCreate(s) ==
    /\ phase[s] = "vault_create"
    /\ \E out \in Outcomes(s) :
        /\ faults' = Fault(s, out)
        /\ Log(s, <<"mkdir", <<vaultName>>, RootId>>)
        /\ IF out = "throw"
           THEN /\ phase' = Rejected(s)
                /\ Fail(s, <<"throw", <<vaultName>>>>)
                /\ UNCHANGED <<drive, made, vaultFolderId, files, batchAt, task, pullVars>>
           ELSE IF out = "ok" /\ CanCreate(RootId)
           THEN /\ drive' = Append(drive, NewObject(vaultName, RootId, "folder"))
                /\ made' = [made EXCEPT ![s] = @ \cup {Len(drive) + 1}]
                /\ UNCHANGED failed
                /\ AfterVaultFolder(s, Len(drive) + 1)
           ELSE /\ Fail(s, <<"mkdir", <<vaultName>>>>)
                /\ UNCHANGED <<drive, made>>
                /\ AfterVaultFolder(s, Undef)
    /\ UNCHANGED <<envVars, vaultRecord, lastSync, dir, token, del,
                   recAtStart, basis, prev, syncs, envOps>>

\* A throw inside a callback: its promise rejects, and so does Promise.all if
\* the sync function is still awaiting it.
TaskThrows(s, p) ==
    /\ task' = [task EXCEPT ![s][p].pc = "threw"]
    /\ phase' = Rejected(s)
    /\ Fail(s, <<"throw", p>>)

\* validateDriveFolder(accessToken, currentFolderId, folderName): the search
TaskSearch(s, p) ==
    LET t == task[s][p]
        name == p[t.seg]
    IN  /\ t.pc = "search"
        /\ \E out \in Outcomes(s) :
            /\ faults' = Fault(s, out)
            /\ Log(s, <<"search", <<name>>, t.cur>>)
            /\ IF out = "ok"
               THEN /\ UNCHANGED <<phase, failed>>
                    /\ IF SearchFolders(t.cur, name) # {}
                       THEN \E id \in SearchFolders(t.cur, name) :
                                task' = [task EXCEPT ![s][p] = NextSegment(t, p, id)]
                       ELSE task' = [task EXCEPT ![s][p].pc = "mkdir"]
               ELSE TaskThrows(s, p)
        /\ UNCHANGED <<envVars, vaultRecord, lastSync, drive, dir, token, vaultFolderId,
                       files, batchAt, del, pullVars, made, recAtStart, basis, prev, syncs, envOps>>

\* validateDriveFolder(accessToken, currentFolderId, folderName): the create
TaskMkdir(s, p) ==
    LET t == task[s][p]
        name == p[t.seg]
    IN  /\ t.pc = "mkdir"
        /\ \E out \in Outcomes(s) :
            /\ faults' = Fault(s, out)
            /\ Log(s, <<"mkdir", <<name>>, t.cur>>)
            /\ IF out = "throw"
               THEN /\ TaskThrows(s, p)
                    /\ UNCHANGED <<drive, made>>
               ELSE IF out = "ok" /\ CanCreate(t.cur)
               THEN /\ drive' = Append(drive, NewObject(name, t.cur, "folder"))
                    /\ made' = [made EXCEPT ![s] = @ \cup {Len(drive) + 1}]
                    /\ task' = [task EXCEPT ![s][p] = NextSegment(t, p, Len(drive) + 1)]
                    /\ UNCHANGED <<phase, failed>>
               ELSE /\ task' = [task EXCEPT ![s][p] = NextSegment(t, p, Undef)]
                    /\ Fail(s, <<"mkdir", SubSeq(p, 1, t.seg)>>)
                    /\ UNCHANGED <<drive, made, phase>>
        /\ UNCHANGED <<envVars, vaultRecord, lastSync, dir, token, vaultFolderId,
                       files, batchAt, del, pullVars, recAtStart, basis, prev, syncs, envOps>>

\* (mutant of AfterUpload: the entry is written before the id is looked at)
AfterUploadUnchecked(hasId, p, id, mt) ==
    Upsert(vaultRecord, p, [gdriveId |-> id, lastModified |-> mt])

\* if (!upserted.id) the failure is reported and the callback returns;
\* otherwise vaultRecord[file.path] = { gdriveId: upserted.id, lastModified: fileModTime }
AfterUpload(hasId, p, id, mt) ==
    IF hasId THEN Upsert(vaultRecord, p, [gdriveId |-> id, lastModified |-> mt])
    ELSE vaultRecord

\* The multipart upload: POST with parents [currentFolderId] for a new file,
\* PATCH files/<gdriveId> without parents for a recorded one.  A response
\* with an id updates the record; one without is reported and the callback
\* returns.
TaskUpload(s, p) ==
    LET t == task[s][p]
        upd == IsUpdate(t.rec)
        accepted == IF upd THEN Exists(t.rec.gdriveId) ELSE CanCreate(t.cur)
        id == IF upd THEN t.rec.gdriveId ELSE Len(drive) + 1
    IN  /\ dir[s] = "push"
        /\ t.pc = "upload"
        /\ \E out \in Outcomes(s) :
            /\ faults' = Fault(s, out)
            /\ Log(s, IF upd THEN <<"update", p, t.rec.gdriveId>> ELSE <<"create", p, t.cur>>)
            /\ IF out = "throw"
               THEN /\ TaskThrows(s, p)
                    /\ UNCHANGED <<drive, made, vaultRecord>>
               ELSE IF out = "ok" /\ accepted
               THEN /\ drive' = IF upd
                                THEN [drive EXCEPT ![id].mtime = now]
                                ELSE Append(drive, NewObject(FileName(p), t.cur, "file"))
                    /\ made' = [made EXCEPT ![s] = IF upd THEN @ ELSE @ \cup {id}]
                    /\ vaultRecord' = AfterUpload(TRUE, p, id, t.mt)
                    /\ task' = [task EXCEPT ![s][p].pc = "done"]
                    /\ UNCHANGED <<phase, failed>>
               ELSE /\ vaultRecord' = AfterUpload(FALSE, p, Undef, t.mt)
                    /\ task' = [task EXCEPT ![s][p].pc = "failed"]
                    /\ Fail(s, <<"upload", p>>)
                    /\ UNCHANGED <<drive, made, phase>>
        /\ UNCHANGED <<envVars, lastSync, dir, token, vaultFolderId,
                       files, batchAt, del, pullVars, recAtStart, basis, prev, syncs, envOps>>

\* (mutant of SweepTargets: the test on localPaths left out)
SweepTargetsAll(fs) == DOMAIN vaultRecord

\* Object.entries(vaultRecord).map(...): every recorded path that is not in
\* localPaths gets a callback, and each one issues its DELETE at once.
SweepTargets(fs) == {p \in DOMAIN vaultRecord : p \notin Range(fs)}

StartDelete(fs) ==
    [p \in Paths |-> IF p \in SweepTargets(fs)
                     THEN [pc |-> "pending", id |-> vaultRecord[p].gdriveId]
                     ELSE NoDel]

\* (mutant of AllSettled: the loop goes on when one callback has settled)
AnySettled(s) == \E p \in Paths : task[s][p].pc \in Terminal \ {"none"}

\* await Promise.all(batch.map(...)): every callback of the batch has settled
AllSettled(s) == \A p \in Paths : task[s][p].pc \in Terminal

\* Promise.all(batch.map(...)) resolved: the next batch, or after the last
\* one the deletion sweep.
EndBatch(s) ==
    LET i == batchAt[s] + CONCURRENCY_LIMIT
    IN  /\ phase[s] = "batch"
        /\ dir[s] = "push"
        /\ AllSettled(s)
        /\ batchAt' = [batchAt EXCEPT ![s] = i]
        /\ IF i < Len(files[s])
           THEN /\ task' = [task EXCEPT ![s] =
                      [p \in Paths |-> IF p \in Range(Batch(files[s], i))
                                       THEN StartUpload(p, vaultFolderId[s])
                                       ELSE task[s][p]]]
                /\ UNCHANGED <<phase, del>>
           ELSE /\ del' = [del EXCEPT ![s] = StartDelete(files[s])]
                /\ phase' = [phase EXCEPT ![s] = "sweep"]
                /\ UNCHANGED task
        /\ UNCHANGED <<envVars, vaultRecord, lastSync, drive, dir, token, vaultFolderId,
                       files, pullVars, histVars, cntVars>>

\* One deletePromises callback: DELETE files/<gdriveId>; the entry is deleted
\* from the record when deleteRes.ok, and kept otherwise.
DeleteRemote(s, p) ==
    LET d == del[s][p]
    IN  /\ d.pc = "pending"
        /\ \E out \in Outcomes(s) :
            /\ faults' = Fault(s, out)
            /\ Log(s, <<"delete", p, d.id>>)
            /\ IF out = "throw"
               THEN /\ del' = [del EXCEPT ![s][p].pc = "threw"]
                    /\ phase' = Rejected(s)
                    /\ Fail(s, <<"throw", p>>)
                    /\ UNCHANGED <<drive, vaultRecord>>
               ELSE IF out = "ok" /\ Exists(d.id)
               THEN /\ drive' = [drive EXCEPT ![d.id].state = "deleted"]
                    /\ vaultRecord' = Remove(vaultRecord, p)
                    /\ del' = [del EXCEPT ![s][p].pc = "done"]
                    /\ UNCHANGED <<phase, failed>>
               ELSE /\ del' = [del EXCEPT ![s][p].pc = "failed"]
                    /\ Fail(s, <<"delete", p>>)
                    /\ UNCHANGED <<drive, vaultRecord, phase>>
        /\ UNCHANGED <<envVars, lastSync, dir, token, vaultFolderId, files, batchAt,
                       task, pullVars, made, recAtStart, basis, prev, syncs, envOps>>

\* settings.sync.lastSync = new Date().toISOString(); await plugin.saveSettings()
Persist(s) ==
    /\ lastSync' = now
    /\ phase' = [phase EXCEPT ![s] = "done"]
    /\ prev' = [kind |-> dir[s], failed |-> failed[s], rec |-> vaultRecord,
                vfid |-> vaultFolderId[s], at |-> now]

\* Promise.all(deletePromises) resolved
EndSweep(s) ==
    /\ phase[s] = "sweep"
    /\ \A p \in Paths : del[s][p].pc \in Terminal
    /\ Persist(s)
    /\ UNCHANGED <<envVars, vaultRecord, drive, dir, token, vaultFolderId, files, batchAt,
                   task, del, pullVars, reqs, failed, made, recAtStart, basis, cntVars>>

----------------------------------------------------------------------------
\* syncDriveToVault: the traversal of the mirror folder.

\* q = '<folder>' in parents and trashed = false, in the order of the store
Children(fid) ==
    SelectSeq([i \in 1..Len(drive) |-> i], LAMBDA i : drive[i].parent = fid /\ Visible(i))

\* fields = files(id,name,mimeType,...,modifiedTime)
Metadata(i) ==
    [id |-> i, name |-> drive[i].name, kind |-> drive[i].kind, mtime |-> drive[i].mtime]

\* One request of the do..while loop of a listing callback.  A page that
\* comes back is appended and its nextPageToken followed.  An error response
\* has neither files nor nextPageToken.  A request that throws is caught
\* inside the loop, which leaves pageToken as it was.
ListPage(s, k) ==
    LET t == listing[s][k]
        kids == Children(t.item.id)
        upto == Min(t.page + PageSize, Len(kids))
        page == [j \in 1..(upto - t.page) |-> Metadata(kids[t.page + j])]
        more == IF upto < Len(kids) THEN upto ELSE 0
    IN  /\ phase[s] = "traverse"
        /\ k \in DOMAIN listing[s]
        /\ t.pc = "list"
        /\ \E out \in Outcomes(s) :
            /\ faults' = Fault(s, out)
            /\ Log(s, <<"list", t.item.path, t.item.id>>)
            /\ IF out = "ok"
               THEN /\ listing' = [listing EXCEPT ![s][k] =
                          [t EXCEPT !.got = @ \o page, !.page = more,
                                    !.pc = IF more = 0 THEN "done" ELSE "list"]]
                    /\ UNCHANGED failed
               ELSE /\ Fail(s, <<"list", t.item.path>>)
                    /\ IF out = "error"
                       THEN listing' = [listing EXCEPT ![s][k] =
                                [t EXCEPT !.page = 0, !.pc = "done"]]
                       ELSE listing' = [listing EXCEPT ![s][k].pc =
                                IF t.page = 0 THEN "done" ELSE "list"]
        /\ UNCHANGED <<envVars, vaultRecord, lastSync, drive, sessVars, folderQueue,
                       driveFileMap, drivePaths, made, recAtStart, basis, prev, syncs, envOps>>

\* for (const { files, folderItem } of batchResults) for (const file of files):
\* the children of the batch, each with filePath = [...folderItem.path, file.name]
RECURSIVE Found(_)
Found(ts) ==
    IF ts = <<>> THEN <<>>
    ELSE [j \in 1..Len(Head(ts).got) |->
             [path |-> Append(Head(ts).item.path, Head(ts).got[j].name),
              file |-> Head(ts).got[j]]] \o Found(Tail(ts))

\* (mutant of IsFolderEntry: a folder is mapped like a file)
IsFolderEntryNever(e) == FALSE

\* if (file.mimeType === 'application/vnd.google-apps.folder')
IsFolderEntry(e) == e.file.kind = "folder"

\* driveFileMap.set(filePath.join('/'), file): a Map keeps the position of the
\* first set of a key and the value of the last one
RECURSIVE KeysAfter(_, _)
KeysAfter(keys, es) ==
    IF es = <<>> THEN keys
    ELSE KeysAfter(IF Head(es).path \in Range(keys) THEN keys
                   ELSE Append(keys, Head(es).path), Tail(es))

MapAfter(map, es) ==
    [p \in DOMAIN map \cup {es[j].path : j \in DOMAIN es} |->
        IF \E j \in DOMAIN es : es[j].path = p
        THEN es[CHOOSE j \in DOMAIN es :
                  es[j].path = p /\ \A l \in DOMAIN es : es[l].path = p => l <= j].file
        ELSE map[p]]

\* (mutant of SkipPull: the identity test left out)
SkipPullNoIdentity(hasLocal, rec, localMod, driveFile) ==
    hasLocal /\ localMod >= driveFile.mtime

\* if (localFile && fileRecord?.gdriveId === driveFile.id) and
\* localModTime >= driveModTime: the file is up to date
SkipPull(hasLocal, rec, localMod, driveFile) ==
    hasLocal /\ rec # NoRec /\ rec.gdriveId = driveFile.id /\ localMod >= driveFile.mtime

\* One pull batch.map callback, run up to its first await: the skip test,
\* then the export or media request
StartDownload(map, p) ==
    LET driveFile == map[p]
        rec == RecordOf(p)
        hasLocal == localMtime[p] > 0
    IN  [NoTask EXCEPT !.pc = IF SkipPull(hasLocal, rec, localMtime[p], driveFile)
                               THEN "skipped" ELSE "fetch",
                       !.cur = driveFile.id, !.mt = driveFile.mtime, !.rec = rec,
                       !.kind = driveFile.kind, !.had = hasLocal,
                       !.localMod = localMtime[p]]

\* Promise.all of the listing batch resolved: folders are queued, files are
\* mapped, and the loop lists the next folders; when the queue is empty the
\* first batch of the transfer loop starts.
EndListBatch(s) ==
    LET es == Found(listing[s])
        folders == SelectSeq(es, IsFolderEntry)
        fileEntries == SelectSeq(es, LAMBDA e : ~IsFolderEntry(e))
        queue == folderQueue[s] \o
                 [j \in 1..Len(folders) |-> [id |-> folders[j].file.id, path |-> folders[j].path]]
        map == MapAfter(driveFileMap[s], fileEntries)
        keys == KeysAfter(drivePaths[s], fileEntries)
    IN  /\ phase[s] = "traverse"
        /\ \A k \in DOMAIN listing[s] : listing[s][k].pc = "done"
        /\ driveFileMap' = [driveFileMap EXCEPT ![s] = map]
        /\ drivePaths' = [drivePaths EXCEPT ![s] = keys]
        /\ IF queue # <<>>
           THEN /\ ListBatch(s, queue)
                /\ UNCHANGED <<phase, task, batchAt>>
           ELSE /\ folderQueue' = [folderQueue EXCEPT ![s] = <<>>]
                /\ listing' = [listing EXCEPT ![s] = <<>>]
                /\ phase' = [phase EXCEPT ![s] = "batch"]
                /\ batchAt' = [batchAt EXCEPT ![s] = 0]
                /\ task' = [task EXCEPT ![s] =
                      [p \in Paths |-> IF p \in Range(Batch(keys, 0))
                                       THEN StartDownload(map, p) ELSE NoTask]]
        /\ UNCHANGED <<envVars, vaultRecord, lastSync, drive, dir, token, vaultFolderId,
                       files, del, histVars, cntVars>>

\* What the local store does with a write or a delete: "ok", or "ioerr" when
\* the call throws
LocalOutcomes(n) == {"ok"} \cup (IF n < MaxFaults THEN {"ioerr"} ELSE {})

\* filePath.split('/').slice(0, -1).join('/'), created with its parents
FoldersOf(p) == {SubSeq(p, 1, n) : n \in 1..(Len(p) - 1)}

\* const isEditorFile = driveFile.mimeType.startsWith('application/vnd.google-apps')
IsEditorFile(kind) == kind # "file"

\* (mutant of DriveURL: every file is requested as media)
DriveURLMedia(isEditorFile) == "download"

\* driveURL: files/<id>/export?mimeType=text/markdown for an editor file,
\* files/<id>?alt=media otherwise
DriveURL(isEditorFile) == IF isEditorFile THEN "export" ELSE "download"

\* (mutant of AfterDownload: the record is left as it was)
AfterDownloadNoRecord(p, id, mt) == vaultRecord

\* settings.sync.vaultRecord[filePath] = { gdriveId: driveFile.id,
\* lastModified: new Date(driveFile.modifiedTime).getTime() }
AfterDownload(p, id, mt) ==
    Upsert(vaultRecord, p, [gdriveId |-> id, lastModified |-> mt])

\* The GET of the content (export as markdown for an editor file, alt=media
\* otherwise) and what follows it.  fetch throwing is outside the try block.
\* Any response, ok or not, goes on into the try block: the parent folder is
\* created when there was no local file, the body is written (vault.modify of
\* the local file for an editor file, adapter.writeBinary of the path
\* otherwise) and the record is set.  vault.modify is handed localFile, which
\* is null when there was no local file: it throws, and the catch reports it.
Fetch(s, p) ==
    LET t == task[s][p]
        isEditorFile == IsEditorFile(t.kind)
    IN  /\ dir[s] = "pull"
        /\ t.pc = "fetch"
        /\ \E out \in Outcomes(s) :
            /\ Log(s, <<DriveURL(isEditorFile), p, t.cur>>)
            /\ IF out = "throw"
               THEN /\ faults' = Fault(s, out)
                    /\ TaskThrows(s, p)
                    /\ UNCHANGED <<localMtime, localFolders, vaultRecord>>
               ELSE \E io \in LocalOutcomes(Fault(s, out)) :
                    LET success == out = "ok" /\ Exists(t.cur)
                        written == io = "ok" /\ (isEditorFile => t.had)
                    IN  /\ faults' = Fault(s, out) + (IF io = "ok" THEN 0 ELSE 1)
                        /\ localFolders' = IF t.had THEN localFolders
                                           ELSE localFolders \cup FoldersOf(p)
                        /\ localMtime' = IF written THEN [localMtime EXCEPT ![p] = now]
                                         ELSE localMtime
                        /\ vaultRecord' = IF written THEN AfterDownload(p, t.cur, t.mt)
                                          ELSE vaultRecord
                        /\ task' = [task EXCEPT ![s][p].pc = IF written THEN "done" ELSE "failed"]
                        /\ failed' = [failed EXCEPT ![s] = @
                              \cup (IF success THEN {} ELSE {<<"download", p>>})
                              \cup (IF io = "ok" THEN {} ELSE {<<"ioerr", p>>})
                              \cup (IF written THEN {} ELSE {<<"write", p>>})]
                        /\ UNCHANGED phase
        /\ UNCHANGED <<now, accessToken, accessExpiry, lastSync, drive, dir, token,
                       vaultFolderId, files, batchAt, del, pullVars, made, recAtStart,
                       basis, prev, syncs, envOps>>

\* Promise.all of a pull batch resolved: the next batch, or after the last
\* one const localFiles = app.vault.getFiles() and the deletion loop
EndPullBatch(s) ==
    LET i == batchAt[s] + CONCURRENCY_LIMIT
    IN  /\ phase[s] = "batch"
        /\ dir[s] = "pull"
        /\ AllSettled(s)
        /\ IF i < Len(drivePaths[s])
           THEN /\ batchAt' = [batchAt EXCEPT ![s] = i]
                /\ task' = [task EXCEPT ![s] =
                      [p \in Paths |-> IF p \in Range(Batch(drivePaths[s], i))
                                       THEN StartDownload(driveFileMap[s], p)
                                       ELSE task[s][p]]]
                /\ UNCHANGED <<phase, files>>
           ELSE /\ files' = [files EXCEPT ![s] = GetFiles]
                /\ batchAt' = [batchAt EXCEPT ![s] = 0]
                /\ phase' = [phase EXCEPT ![s] = "local_sweep"]
                /\ UNCHANGED task
        /\ UNCHANGED <<envVars, vaultRecord, lastSync, drive, dir, token, vaultFolderId,
                       del, pullVars, histVars, cntVars>>

\* (mutant of Orphaned: the test on the record left out)
OrphanedUnrecorded(s, p) == p \notin DOMAIN driveFileMap[s]

\* if (!driveFileMap.has(file.path) && settings.sync.vaultRecord[file.path])
Orphaned(s, p) == p \notin DOMAIN driveFileMap[s] /\ p \in DOMAIN vaultRecord

\* the turns of the deletion loop that are still to come and delete a file
ToDelete(s) == {j \in (batchAt[s] + 1)..Len(files[s]) : Orphaned(s, files[s][j])}

\* await app.vault.delete(file), then the entry is deleted from the record; a
\* delete that throws is caught and reported
DeleteLocal(s) ==
    /\ phase[s] = "local_sweep"
    /\ ToDelete(s) # {}
    /\ LET j == CHOOSE j \in ToDelete(s) : \A l \in ToDelete(s) : j <= l
           p == files[s][j]
       IN  \E io \in LocalOutcomes(faults) :
            /\ batchAt' = [batchAt EXCEPT ![s] = j]
            /\ faults' = faults + (IF io = "ok" THEN 0 ELSE 1)
            /\ IF io = "ok"
               THEN /\ localMtime' = [localMtime EXCEPT ![p] = 0]
                    /\ vaultRecord' = Remove(vaultRecord, p)
                    /\ del' = [del EXCEPT ![s][p] = [pc |-> "done", id |-> Undef]]
                    /\ UNCHANGED failed
               ELSE /\ del' = [del EXCEPT ![s][p] = [pc |-> "failed", id |-> Undef]]
                    /\ Fail(s, <<"ioerr", p>>)
                    /\ UNCHANGED <<localMtime, vaultRecord>>
    /\ UNCHANGED <<now, localFolders, accessToken, accessExpiry, lastSync, drive, phase,
                   dir, token, vaultFolderId, files, task, pullVars, reqs, made,
                   recAtStart, basis, prev, syncs, envOps>>

\* the deletion loop is over
EndLocalSweep(s) ==
    /\ phase[s] = "local_sweep"
    /\ ToDelete(s) = {}
    /\ Persist(s)
    /\ UNCHANGED <<envVars, vaultRecord, drive, dir, token, vaultFolderId, files, batchAt,
                   task, del, pullVars, reqs, failed, made, recAtStart, basis, cntVars>>

----------------------------------------------------------------------------
\* The user, between syncs: edits in the vault, changes made to the Drive
\* folder from elsewhere, and the access token running out.

UserEvent ==
    /\ Quiescent
    /\ envOps < MaxEnvOps
    /\ envOps' = envOps + 1
    /\ now' = now + 1
    /\ UNCHANGED <<vaultRecord, lastSync, sessVars, pullVars, reqs, failed, made,
                   recAtStart, basis, syncs, faults>>

\* a file is created or modified in the vault
LocalWrite(p) ==
    /\ UserEvent
    /\ localMtime' = [localMtime EXCEPT ![p] = now + 1]
    /\ localFolders' = localFolders \cup (IF Len(p) > 1 THEN {PathParts(p)} ELSE {})
    /\ prev' = NoPrev
    /\ UNCHANGED <<accessToken, accessExpiry, drive>>

\* a file is deleted from the vault
LocalDelete(p) ==
    /\ UserEvent
    /\ localMtime[p] > 0
    /\ localMtime' = [localMtime EXCEPT ![p] = 0]
    /\ prev' = NoPrev
    /\ UNCHANGED <<localFolders, accessToken, accessExpiry, drive>>

\* The folders of a path on the remote side, from the selected root folder
\* down: the ones that exist, and new ones for the segments that are missing
RECURSIVE WithFolders(_, _, _)
WithFolders(d, parent, segs) ==
    IF segs = <<>> THEN [drive |-> d, folder |-> parent]
    ELSE LET found == {id \in 1..Len(d) :
                         /\ d[id].kind = "folder" /\ d[id].name = Head(segs)
                         /\ d[id].parent = parent /\ d[id].state = "live"}
         IN  IF found # {}
             THEN WithFolders(d, CHOOSE id \in found : \A o \in found : id <= o, Tail(segs))
             ELSE WithFolders(Append(d, [name |-> Head(segs), parent |-> parent,
                                         kind |-> "folder", mtime |-> now + 1,
                                         state |-> "live"]),
                              Len(d) + 1, Tail(segs))

\* a file, or an editor document, is put into the mirror folder from
\* elsewhere; its modifiedTime is the time of the event, or a little older
RemoteAdd(p, kind, mt) ==
    LET r == WithFolders(drive, RootId, <<vaultName>> \o PathParts(p))
    IN  /\ UserEvent
        /\ Len(r.drive) < MaxObjects
        /\ drive' = Append(r.drive, [name |-> FileName(p), parent |-> r.folder, kind |-> kind,
                                     mtime |-> mt, state |-> "live"])
        /\ UNCHANGED <<localMtime, localFolders, accessToken, accessExpiry, prev>>

\* a remote object is modified from elsewhere
RemoteTouch(id) ==
    /\ UserEvent
    /\ Visible(id) /\ ~IsFolder(id)
    /\ drive' = [drive EXCEPT ![id].mtime = now + 1]
    /\ UNCHANGED <<localMtime, localFolders, accessToken, accessExpiry, prev>>

\* a remote object is moved to the trash from elsewhere
RemoteTrash(id) ==
    /\ UserEvent
    /\ Visible(id)
    /\ drive' = [drive EXCEPT ![id].state = "trashed"]
    /\ UNCHANGED <<localMtime, localFolders, accessToken, accessExpiry, prev>>

\* time passes, up to the last instant before settings.auth.accessExpiry or
\* up to that instant
TokenExpires ==
    /\ Quiescent
    /\ envOps < MaxEnvOps
    /\ envOps' = envOps + 1
    /\ accessExpiry # Undef
    /\ \E t \in {accessExpiry - 1, accessExpiry} : t > now /\ now' = t
    /\ UNCHANGED <<vaultRecord, lastSync, sessVars, pullVars, reqs, failed, made,
                   recAtStart, basis, syncs, faults>>
    /\ UNCHANGED <<localMtime, localFolders, accessToken, accessExpiry, drive, prev>>

Environment ==
    \/ \E p \in CorePaths : LocalWrite(p)
    \/ \E p \in CorePaths : LocalDelete(p)
    \/ \E p \in CorePaths, kind \in {"file", "doc"}, mt \in {now, now + 1} :
          RemoteAdd(p, kind, mt)
    \/ \E id \in 1..Len(drive) : RemoteTouch(id)
    \/ \E id \in 1..Len(drive) : RemoteTrash(id)
    \/ TokenExpires

Push(s) ==
    \/ StartPush(s)
    \/ EndBatch(s)
    \/ \E p \in Paths : TaskSearch(s, p)
    \/ \E p \in Paths : TaskMkdir(s, p)
    \/ \E p \in Paths : TaskUpload(s, p)
    \/ \E p \in Paths : DeleteRemote(s, p)
    \/ EndSweep(s)

Pull(s) ==
    \/ StartPull(s)
    \/ \E k \in 1..CONCURRENCY_LIMIT : ListPage(s, k)
    \/ EndListBatch(s)
    \/ \E p \in Paths : Fetch(s, p)
    \/ EndPullBatch(s)
    \/ DeleteLocal(s)
    \/ EndLocalSweep(s)

Common(s) ==
    \/ Refresh(s)
    \/ VaultSearch(s)
    \/ VaultCreate(s)

Next ==
    \/ \E s \in {1} : Common(s) \/ Push(s) \/ Pull(s)
    \/ Environment

Spec == Init /\ [][Next]_vars

----------------------------------------------------------------------------
\* The large vault: one sync of a vault of MaxItems files, to exercise the
\* batch loops and the deletion sweep with more items than CONCURRENCY_LIMIT.

\* the mirror of the large vault in the remote store, as a push of every
\* file at time 1 left it: the mirror folder, folder a, and the files
Mirror ==
    <<[name |-> vaultName, parent |-> RootId, kind |-> "folder", mtime |-> 1, state |-> "live"],
      [name |-> "a", parent |-> 1, kind |-> "folder", mtime |-> 1, state |-> "live"]>>
    \o [k \in 1..MaxItems |->
          [name |-> FileName(PathOrder[k]),
           parent |-> IF Len(PathOrder[k]) > 1 THEN 2 ELSE 1,
           kind |-> "file", mtime |-> 1, state |-> "live"]]

\* Every file was pushed at time 1.  Since then the first i files of the
\* enumeration were left alone, the next ones up to the j-th were edited, and
\* the rest were deleted from the vault.
InitBatch ==
    /\ now = 2
    /\ \E i, j \in 0..MaxItems :
          /\ i <= j
          /\ localMtime = [p \in Paths |-> IF IndexOf(p) <= i THEN 1
                                           ELSE IF IndexOf(p) <= j THEN 2 ELSE 0]
    /\ localFolders = {<<"a">>}
    /\ vaultRecord = [p \in {q \in Paths : IndexOf(q) <= MaxItems} |->
                         [gdriveId |-> 2 + IndexOf(p), lastModified |-> 1]]
    /\ lastSync = 1
    /\ accessToken = "good"
    /\ accessExpiry = now + TokenLife
    /\ drive = Mirror
    /\ InitSessions
    /\ syncs = MaxSyncs - 1
    /\ envOps = MaxEnvOps
    /\ faults = 0

\* the steps of a sync of the large vault: the mirror folder and folder a
\* exist and the token is valid, so nothing is refreshed or created, and
\* every recorded path is on the remote side, so pull deletes no local file
NextBatch ==
    \E s \in {1} :
        \/ StartPush(s)
        \/ StartPull(s)
        \/ VaultSearch(s)
        \/ \E p \in Paths : TaskSearch(s, p)
        \/ \E p \in Paths : TaskUpload(s, p)
        \/ EndBatch(s)
        \/ \E p \in Paths : DeleteRemote(s, p)
        \/ EndSweep(s)
        \/ \E k \in 1..CONCURRENCY_LIMIT : ListPage(s, k)
        \/ EndListBatch(s)
        \/ \E p \in Paths : Fetch(s, p)
        \/ EndPullBatch(s)
        \/ EndLocalSweep(s)

SpecBatch == InitBatch /\ [][NextBatch]_vars

----------------------------------------------------------------------------
\* The deep vault: one push of a vault with a file two folders down, and
\* possibly a top-level file, into a remote store that has none, some or all
\* of the folders of the path.

\* the folders <<V>>, <<V, a>>, <<V, a, b>> of the remote store, the first n
FolderChain(n) ==
    [k \in 1..n |-> [name |-> (<<vaultName>> \o PathParts(PathDeep))[k], parent |-> k - 1,
                     kind |-> "folder", mtime |-> 1, state |-> "live"]]

InitDeep ==
    /\ now = 1
    /\ \E z \in {0, 1} :
          localMtime = [p \in Paths |-> IF p = PathDeep THEN 1 ELSE IF p = PathZ THEN z ELSE 0]
    /\ localFolders = FoldersOf(PathDeep)
    /\ vaultRecord = EmptyRecord
    /\ lastSync = 0
    /\ accessToken = "good"
    /\ accessExpiry = now + TokenLife
    /\ \E n \in 0..Len(PathDeep) : drive = FolderChain(n)
    /\ InitSessions
    /\ syncs = MaxSyncs - 1
    /\ envOps = MaxEnvOps
    /\ faults = 0

\* the steps of a push of the deep vault: there is no entry, so nothing is
\* deleted, and the token is valid
NextDeep ==
    \E s \in {1} :
        \/ StartPush(s)
        \/ VaultSearch(s)
        \/ VaultCreate(s)
        \/ \E p \in Paths : TaskSearch(s, p)
        \/ \E p \in Paths : TaskMkdir(s, p)
        \/ \E p \in Paths : TaskUpload(s, p)
        \/ EndBatch(s)
        \/ EndSweep(s)

SpecDeep == InitDeep /\ [][NextDeep]_vars

----------------------------------------------------------------------------
\* The drifted vault: z.md was written at time 1 and pushed at time 2 with a
\* token refreshed by that push; since then the file was left alone or was
\* deleted from the vault.  One more event may follow, and then one pull.
InitDrift ==
    /\ now = 3
    /\ \E z \in {0, 1} : localMtime = [p \in Paths |-> IF p = PathZ THEN z ELSE 0]
    /\ localFolders = {}
    /\ vaultRecord = [p \in {PathZ} |-> [gdriveId |-> 2, lastModified |-> 1]]
    /\ lastSync = 2
    /\ accessToken = "good"
    /\ accessExpiry = 2 + TokenLife
    /\ drive = <<[name |-> vaultName, parent |-> RootId, kind |-> "folder",
                  mtime |-> 2, state |-> "live"],
                 [name |-> FileName(PathZ), parent |-> 1, kind |-> "file",
                  mtime |-> 2, state |-> "live"]>>
    /\ InitSessions
    /\ syncs = MaxSyncs - 1
    /\ envOps = 0
    /\ faults = 0

\* the steps of a pull of the drifted vault, and the events before it
NextDrift ==
    \/ \E s \in {1} : Common(s) \/ Pull(s)
    \/ Environment

SpecDrift == InitDrift /\ [][NextDrift]_vars

----------------------------------------------------------------------------
\* The overlapping syncs: a vault with the one file z.md, never synced, and a
\* remote store with or without the mirror folder.  The Push Sync button is
\* clicked, and while that push is in flight the Push Sync or the Pull Sync
\* button is clicked: the onClick handlers call the sync functions with no
\* test of a sync being under way.  No request fails.
InitOverlap ==
    /\ now = 1
    /\ localMtime = [p \in Paths |-> IF p = PathZ THEN 1 ELSE 0]
    /\ localFolders = {}
    /\ vaultRecord = EmptyRecord
    /\ lastSync = 0
    /\ accessToken = "good"
    /\ accessExpiry = now + TokenLife
    /\ \E n \in 0..1 : drive = FolderChain(n)
    /\ InitSessions
    /\ syncs = 0
    /\ envOps = MaxEnvOps
    /\ faults = MaxFaults

\* the first click: a push
FirstClick == phase[1] = "idle" /\ StartPush(1)

\* the second click, while the push of the first click is awaiting a request
SecondClick(d) == ~Idle(1) /\ phase[2] = "idle" /\ StartSync(2, d)

NextOverlap ==
    \/ FirstClick
    \/ \E d \in {"push", "pull"} : SecondClick(d)
    \/ \E s \in Slots :
          \/ VaultSearch(s)
          \/ VaultCreate(s)
          \/ \E p \in Paths : TaskUpload(s, p)
          \/ EndBatch(s)
          \/ EndSweep(s)
          \/ \E k \in 1..CONCURRENCY_LIMIT : ListPage(s, k)
          \/ EndListBatch(s)
          \/ \E p \in Paths : Fetch(s, p)
          \/ EndPullBatch(s)
          \/ DeleteLocal(s)
          \/ EndLocalSweep(s)

SpecOverlap == InitOverlap /\ [][NextOverlap]_vars

----------------------------------------------------------------------------
\* Properties.

\* the sync of session s has just completed: nothing happened since its persist
JustDone(s) == phase[s] = "done" /\ lastSync = now

\* the transfer requests (file create, file update, delete) session s issued
Transfers(s) == {r \in reqs[s] : r[1] \in {"create", "update", "delete"}}

\* the upload and delete failures among a set of reported failures
TransferFailures(fs) == {f \in fs : f[1] \in {"upload", "delete"}}

\* session s is a push that was started after a completed push, with no
\* edit of the vault in between
SecondPush(s) == dir[s] = "push" /\ basis[s].kind = "push"

\* Sanity of the model: every discovered remote path is one of Paths, the
\* record only has keys in Paths, and a session only has tasks while it runs.
TypeOK ==
    /\ DOMAIN vaultRecord \subseteq Paths
    /\ \A s \in Slots :
        /\ Range(drivePaths[s]) \subseteq Paths
        /\ DOMAIN driveFileMap[s] = Range(drivePaths[s])
        /\ phase[s] \in {"idle", "refresh", "vault_search", "vault_create", "batch",
                         "sweep", "traverse", "local_sweep", "done", "aborted"}
    /\ Len(drive) <= MaxObjects

\* C1 as stated: a push that follows a completed push, with no local change
\* in between, issues no upload and no delete request and leaves the
\* SyncRecord as the first push left it.
C1_AsStated ==
    \A s \in Slots :
        SecondPush(s) => Transfers(s) = {} /\ vaultRecord = basis[s].rec

\* C1, amended: the same, when the first push reported no failed upload and
\* no failed delete.
C1_PushIdempotent ==
    \A s \in Slots :
        SecondPush(s) /\ TransferFailures(basis[s].failed) = {}
            => Transfers(s) = {} /\ vaultRecord = basis[s].rec

\* a second push has completed after a first one that uploaded files
C1_Witness ==
    /\ SecondPush(1) /\ TransferFailures(basis[1].failed) = {}
    /\ phase[1] = "done"
    /\ basis[1].rec # EmptyRecord
    /\ \E p \in Paths : task[1][p].pc = "skipped"

\* vaultRecord[p] as it was when session s started
RecAtStart(s, p) == IF p \in DOMAIN recAtStart[s] THEN recAtStart[s][p] ELSE NoRec

\* the recorded paths that the enumeration of push s does not have
Missing(s) == DOMAIN recAtStart[s] \ Range(files[s])

\* C2: in a push a remote delete is issued, by the recorded remoteId, for
\* exactly the recorded paths that are absent from the enumeration of that
\* push, never for an enumerated path; the entry is removed if and only if
\* the delete succeeded, and is retained unchanged otherwise.
C2_PushDeletes ==
    \A s \in Slots : dir[s] = "push" =>
        /\ \A r \in reqs[s] : r[1] = "delete" =>
              /\ r[2] \notin Range(files[s])
              /\ r[2] \in DOMAIN recAtStart[s]
              /\ r[3] = recAtStart[s][r[2]].gdriveId
        /\ phase[s] = "done" =>
              \A p \in Missing(s) : \E r \in reqs[s] : r[1] = "delete" /\ r[2] = p
        /\ \A p \in Missing(s) :
              /\ p \in DOMAIN vaultRecord
                    <=> drive[recAtStart[s][p].gdriveId].state # "deleted"
              /\ p \in DOMAIN vaultRecord => vaultRecord[p] = recAtStart[s][p]

\* a push has completed in which one delete succeeded
C2_Witness ==
    /\ dir[1] = "push" /\ phase[1] = "done"
    /\ \E p \in Missing(1) : del[1][p].pc = "done" /\ p \notin DOMAIN vaultRecord

\* C3: a pull deletes a local file exactly when its path is absent from the
\* discovered remote map and present in the SyncRecord; the entry is dropped
\* if and only if the local delete succeeded; a local file without an entry
\* is never deleted.
C3_PullDeletes ==
    \A s \in Slots : dir[s] = "pull" /\ JustDone(s) =>
        \A p \in Paths :
            LET wasLocal == p \in Range(files[s])
                orphan == /\ wasLocal
                          /\ p \notin DOMAIN driveFileMap[s]
                          /\ p \in DOMAIN recAtStart[s]
                deleted == wasLocal /\ localMtime[p] = 0
            IN  /\ deleted => orphan
                /\ orphan => (deleted <=> <<"ioerr", p>> \notin failed[s])
                /\ orphan => (deleted <=> p \notin DOMAIN vaultRecord)
                /\ orphan /\ ~deleted => vaultRecord[p] = recAtStart[s][p]

\* a pull has completed that deleted a local file, and left alone a local
\* file that has no entry and is not on the remote side
C3_Witness ==
    /\ dir[1] = "pull" /\ JustDone(1)
    /\ \E p \in Range(files[1]) : localMtime[p] = 0 /\ p \in DOMAIN recAtStart[1]
    /\ \E p \in Range(files[1]) :
          p \notin DOMAIN driveFileMap[1] /\ p \notin DOMAIN recAtStart[1]

\* C4: the folders a push creates are created once: no two of them have the
\* same name under the same parent.
C4_FolderCreatedOnce ==
    \A s \in Slots : dir[s] = "push" =>
        \A i, j \in made[s] :
            /\ drive[i].kind = "folder" /\ drive[j].kind = "folder"
            /\ drive[i].name = drive[j].name /\ drive[i].parent = drive[j].parent
            => i = j

\* C5: a failure of one item (an error response, or a request that throws)
\* never aborts the sync it belongs to.
C5_ItemFailureNeverAborts ==
    \A s \in Slots :
        (\E f \in failed[s] : f[2] \in Paths) => phase[s] # "aborted"

\* C6: a remote file that pull fetched successfully and that had no local
\* counterpart ends with its parent folders and the local file created and
\* its entry set to {remoteId, lastModified: remoteModifiedTime}.
C6_PullCreatesMissingFile ==
    \A s \in Slots : dir[s] = "pull" /\ (phase[s] \in {"batch", "local_sweep"} \/ JustDone(s)) =>
        \A p \in Paths :
            LET t == task[s][p] IN
            /\ t.pc \in {"done", "failed"}
            /\ ~t.had
            /\ <<"download", p>> \notin failed[s]
            /\ <<"ioerr", p>> \notin failed[s]
            => /\ localMtime[p] > 0
               /\ FoldersOf(p) \subseteq localFolders
               /\ RecordOf(p) = [gdriveId |-> t.cur, lastModified |-> t.mt]

\* C7: when the fetch of a remote file fails, nothing is written to the
\* local path and the entry of the path is left as it was.
C7_FailedDownloadChangesNothing ==
    \A s \in Slots : dir[s] = "pull" /\ (phase[s] \in {"batch", "local_sweep"} \/ JustDone(s)) =>
        \A p \in Paths :
            <<"download", p>> \in failed[s]
            => localMtime[p] = task[s][p].localMod /\ RecordOf(p) = task[s][p].rec

\* C8: an upload that returns no id leaves the entry of its path (present or
\* absent) as it was before the push, and the next push transfers the path
\* again.
C8_FailedUploadKeepsRecord ==
    \A s \in Slots : dir[s] = "push" =>
        \A p \in Paths :
            /\ task[s][p].pc = "failed" => RecordOf(p) = RecAtStart(s, p)
            /\ /\ basis[s].kind = "push"
               /\ <<"upload", p>> \in basis[s].failed
               /\ phase[s] \in {"batch", "sweep", "done"}
               => task[s][p].pc \notin {"none", "skipped"}

\* the push after a push with a failed upload has issued the upload again
C8_Witness ==
    /\ SecondPush(1)
    /\ \E p \in Paths :
          /\ <<"upload", p>> \in basis[1].failed
          /\ \E r \in reqs[1] : r[1] \in {"create", "update"} /\ r[2] = p

\* C9: once the create of a folder segment has returned no id, nothing is
\* searched, created or uploaded beneath it: no request names undefined as
\* the parent, and after an unresolved mirror folder no file is uploaded.
C9_UnresolvedFolderSkipped ==
    \A s \in Slots : dir[s] = "push" =>
        /\ \A r \in reqs[s] : r[1] \in {"search", "mkdir", "create"} => r[3] # Undef
        /\ <<"mkdir", <<vaultName>>>> \in failed[s]
              => \A r \in reqs[s] : r[1] \notin {"create", "update"}

\* C10: a sync whose refresh exchange yielded no usable access token issues
\* no request to the remote store and does not change the SyncRecord.
C10_AuthFailureIsFatal ==
    \A s \in Slots :
        <<"auth", <<>>>> \in failed[s]
            => /\ \A r \in reqs[s] : r[1] = "refresh"
               /\ vaultRecord = recAtStart[s]

\* C11: the remoteId of an entry never changes while the entry exists: no
\* step takes a path that has an entry to an entry with another gdriveId.
C11_RemoteIdImmutable ==
    [][\A p \in DOMAIN vaultRecord \cap DOMAIN vaultRecord' :
           vaultRecord'[p].gdriveId = vaultRecord[p].gdriveId]_vars

\* the upload requests (file create, file update) session s issued for path p
Uploads(s, p) == {r \in reqs[s] : r[1] \in {"create", "update"} /\ r[2] = p}

\* session s is running or has just completed: the vault and the remote
\* store were not changed from outside since it started
Current(s) ==
    \/ phase[s] \in {"batch", "sweep", "traverse", "local_sweep"}
    \/ phase[s] = "aborted" /\ ~TasksResolved(s)
    \/ JustDone(s)

\* the batch loop of push s is over and the push was not aborted
BatchesDone(s) == dir[s] = "push" /\ phase[s] \in {"sweep", "done"}

\* C14: push skips a file, with no folder resolution and no upload, if and
\* only if the path has an entry with lastModified >= the file's mtime,
\* equality included; a file without an entry, or with an older entry, is
\* transferred.
C14_PushSkipBoundary ==
    \A s \in Slots : dir[s] = "push" /\ Current(s) =>
        /\ \A p \in Paths : task[s][p].pc # "none" =>
              LET unchanged == /\ p \in DOMAIN recAtStart[s]
                               /\ recAtStart[s][p].lastModified >= localMtime[p]
              IN  /\ task[s][p].pc = "skipped" <=> unchanged
                  /\ unchanged => Uploads(s, p) = {}
                  /\ ~unchanged /\ BatchesDone(s) => Uploads(s, p) # {}
        /\ (\A p \in Range(files[s]) : task[s][p].pc = "skipped")
              => \A r \in reqs[s] :
                    r[1] \in {"search", "mkdir", "create", "update"} => r[2] = <<vaultName>>

\* a push has skipped a file whose entry has exactly the file's mtime, and
\* uploaded a file whose entry was older than the file
C14_Witness ==
    /\ BatchesDone(1) /\ Current(1)
    /\ \E p \in Paths :
          /\ task[1][p].pc = "skipped"
          /\ recAtStart[1][p].lastModified = localMtime[p]
    /\ \E p \in Paths :
          /\ p \in DOMAIN recAtStart[1]
          /\ recAtStart[1][p].lastModified < localMtime[p]
          /\ Uploads(1, p) # {}

\* the content requests (export, media download) session s issued for path p
Downloads(s, p) == {r \in reqs[s] : r[1] \in {"export", "download"} /\ r[2] = p}

\* the remote file that pull s discovered at path p
Discovered(s, p) == driveFileMap[s][p]

\* C15: pull skips a discovered remote file if and only if there is a local
\* file at the path, the entry of the path has the id of the remote file, and
\* the local mtime is >= the remote modifiedTime; otherwise the file is
\* fetched, by the id that was discovered.
C15_PullSkipRule ==
    \A s \in Slots : dir[s] = "pull" /\ Current(s) =>
        \A p \in Paths : task[s][p].pc # "none" =>
            LET t == task[s][p]
                f == Discovered(s, p)
                upToDate == /\ t.localMod > 0
                            /\ p \in DOMAIN recAtStart[s]
                            /\ recAtStart[s][p].gdriveId = f.id
                            /\ t.localMod >= f.mtime
            IN  /\ t.pc = "skipped" <=> upToDate
                /\ upToDate => Downloads(s, p) = {} /\ localMtime[p] = t.localMod
                /\ ~upToDate /\ t.pc # "fetch" =>
                      \E r \in Downloads(s, p) : r[3] = f.id

\* a pull has fetched a file whose local copy was not older than the remote
\* one, because the entry of the path was missing or had another id
C15_Witness ==
    /\ dir[1] = "pull" /\ Current(1)
    /\ \E p \in Paths :
          /\ task[1][p].pc \in {"done", "failed"}
          /\ task[1][p].localMod >= Discovered(1, p).mtime
          /\ Downloads(1, p) # {}

\* C16: an entry is added to the SyncRecord only by a successful upload or
\* download of its path, and removed only by a successful delete of its
\* path: a step that adds the entry of p is not one in which the transfer of
\* p failed, and a step that removes it is not one in which the delete failed.
C16_RecordMembership ==
    [][\A s \in Slots, p \in Paths :
          /\ p \in DOMAIN vaultRecord' /\ p \notin DOMAIN vaultRecord
                => /\ <<"upload", p>> \notin failed'[s]
                   /\ <<"download", p>> \notin failed'[s]
          /\ p \in DOMAIN vaultRecord /\ p \notin DOMAIN vaultRecord'
                => /\ <<"delete", p>> \notin failed'[s]
                   /\ <<"ioerr", p>> \notin failed'[s]]_vars

\* C18: in a pull an editor document is requested only through export, a
\* file of any other type only through the media download, and every fetched
\* file is requested through exactly one of the two.
C18_EditorFilesExported ==
    \A s \in Slots : dir[s] = "pull" /\ Current(s) =>
        /\ \A r \in reqs[s] :
              /\ r[1] = "export" => drive[r[3]].kind = "doc"
              /\ r[1] = "download" => drive[r[3]].kind = "file"
        /\ \A p \in Paths : task[s][p].pc \in {"done", "failed"} =>
              \E r \in Downloads(s, p) : r[3] = task[s][p].cur

\* a pull has requested an editor document through export
C18_Witness ==
    /\ dir[1] = "pull" /\ Current(1)
    /\ \E r \in reqs[1] : r[1] = "export" /\ drive[r[3]].kind = "doc"

\* id is what the folder loop of push s can have resolved for the parent
\* of path p: the mirror folder for a top-level file, else a folder with the
\* name of the last folder segment, or undefined when a create returned no id
ResolvedParent(s, p, id) ==
    IF Len(PathParts(p)) = 0 THEN id = vaultFolderId[s]
    ELSE \/ id = Undef
         \/ /\ id \in 1..Len(drive)
            /\ drive[id].kind = "folder"
            /\ drive[id].name = p[Len(p) - 1]
            /\ Len(p) = 2 => drive[id].parent = vaultFolderId[s]

\* the upload requests of push s agree with the record it started from
UploadsMatchRecord(s) ==
    \A r \in reqs[s] :
        /\ r[1] = "create" =>
              /\ r[2] \notin DOMAIN recAtStart[s]
              /\ ResolvedParent(s, r[2], r[3])
        /\ r[1] = "update" =>
              /\ r[2] \in DOMAIN recAtStart[s]
              /\ r[3] = recAtStart[s][r[2]].gdriveId
        /\ r[1] \in {"create", "update"} => Cardinality(Uploads(s, r[2])) = 1

\* C20: push uploads a path with a create, under the resolved parent folder,
\* if and only if the path had no entry; otherwise with an update of exactly
\* the recorded remoteId; one upload request is issued per path, and no step
\* moves or renames an object of the remote store.
C20_CreateVersusUpdate ==
    /\ [](\A s \in Slots : dir[s] = "push" /\ Current(s) => UploadsMatchRecord(s))
    /\ [][\A id \in 1..Len(drive) :
             /\ drive'[id].parent = drive[id].parent
             /\ drive'[id].name = drive[id].name]_vars

\* a push has updated a recorded file and created an unrecorded one
C20_Witness ==
    /\ dir[1] = "push" /\ Current(1)
    /\ \E r \in reqs[1] : r[1] = "update" /\ task[1][r[2]].pc = "done"
    /\ \E r \in reqs[1] : r[1] = "create" /\ task[1][r[2]].pc = "done"

\* session s is between its token check and its end
Running(s) ==
    phase[s] \in {"vault_search", "vault_create", "batch", "sweep", "traverse", "local_sweep"}

\* session s has made the refresh exchange
Refreshed(s) == <<"refresh", <<>>, 0>> \in reqs[s]

\* C19: the token check makes the refresh exchange if and only if
\* now >= accessExpiry.  While the exchange is awaited no request was issued
\* to the remote store; a sync that goes on without an exchange had a token
\* that was not expired, and goes on with the stored token; a sync that goes
\* on after an exchange goes on with the token that was stored by it, with a
\* new expiry.  Only the exchange changes the stored credentials.
C19_RefreshIffExpired ==
    /\ [](\A s \in Slots :
            /\ phase[s] = "refresh" =>
                  /\ reqs[s] = {}
                  /\ accessExpiry # Undef /\ now >= accessExpiry
            /\ Running(s) /\ ~Refreshed(s) =>
                  /\ accessExpiry = Undef \/ now < accessExpiry
                  /\ token[s] = accessToken
            /\ Running(s) /\ Refreshed(s) =>
                  /\ token[s] = accessToken
                  /\ accessExpiry \in {Undef, now + TokenLife})
    /\ [][\A s \in Slots :
             /\ Refreshed(s)' /\ ~Refreshed(s) => phase[s] = "refresh"
             /\ (accessToken' # accessToken \/ accessExpiry' # accessExpiry)
                   => \E r \in Slots : phase[r] = "refresh"]_vars

\* a sync that found its token expired has refreshed it and gone on to the
\* remote store with the new one
C19_Witness ==
    /\ Running(1) /\ Refreshed(1)
    /\ accessExpiry = now + TokenLife
    /\ accessToken = "good" /\ token[1] = "good"
    /\ \E r \in reqs[1] : r[1] = "search"

\* the work items of the transfer loop of session s, in order
Items(s) == IF dir[s] = "push" THEN files[s] ELSE drivePaths[s]

\* the item tasks of session s that are in flight
InFlightItems(s) == {p \in Paths : task[s][p].pc \notin Terminal}

\* the number of groups of n items
Groups(n) == (n + CONCURRENCY_LIMIT - 1) \div CONCURRENCY_LIMIT

\* item j of session s is pending transfer: its task does not skip it
Pending(s, j) ==
    LET p == Items(s)[j]
    IN  IF task[s][p].pc # "none" THEN task[s][p].pc # "skipped"
        ELSE IF dir[s] = "push" THEN ~SkipPush(RecordOf(p), localMtime[p])
        ELSE ~SkipPull(localMtime[p] > 0, RecordOf(p), localMtime[p], driveFileMap[s][p])

Requests(s) ==
    Cardinality({p \in Paths : task[s][p].pc \in {"search", "mkdir", "upload", "fetch"}})
    + Cardinality({p \in Paths : del[s][p].pc = "pending"})
    + Cardinality({k \in DOMAIN listing[s] : listing[s][k].pc = "list"})
    + (IF phase[s] \in {"refresh", "vault_search", "vault_create"} THEN 1 ELSE 0)

\* C13: at no time does a sync have more than K requests in flight, the
\* deletion sweep included.
C13_RequestsBounded ==
    \A s \in Slots : Requests(s) <= CONCURRENCY_LIMIT

\* C17: groups run in sequence.  An item task starts only when no item task
\* of the session is in flight; the transfer loop is left for the deletion
\* sweep only when every item task has settled; the traversal queues, maps
\* and lists again only when every listing of the group is done; the sync
\* completes only when every delete of the sweep has settled.
C17_GroupsInSequence ==
    [][\A s \in Slots :
          /\ (\E p \in Paths : task[s][p].pc = "none" /\ task'[s][p].pc # "none")
                => \A q \in Paths : task[s][q].pc \in Terminal
          /\ phase[s] = "batch" /\ (phase'[s] \in {"sweep", "local_sweep"} \/ batchAt'[s] # batchAt[s])
                => \A q \in Paths : task[s][q].pc \in Terminal
          /\ phase[s] = "traverse" /\ (folderQueue'[s] # folderQueue[s]
                                       \/ driveFileMap'[s] # driveFileMap[s]
                                       \/ phase'[s] = "batch")
                => \A k \in DOMAIN listing[s] : listing[s][k].pc = "done"
          /\ phase[s] = "sweep" /\ phase'[s] = "done"
                => \A q \in Paths : del[s][q].pc \in Terminal]_vars

\* the second group has started after a first group in which one upload
\* failed and the others succeeded
C17_Witness ==
    /\ phase[1] = "batch" /\ batchAt[1] = CONCURRENCY_LIMIT
    /\ \E p \in Paths : IndexOf(p) <= CONCURRENCY_LIMIT /\ task[1][p].pc = "failed"
    /\ \E p \in Paths : IndexOf(p) <= CONCURRENCY_LIMIT /\ task[1][p].pc = "done"
    /\ \E p \in Paths : IndexOf(p) > CONCURRENCY_LIMIT /\ task[1][p].pc \notin Terminal

\* C21: a listing request that fails ends the listing of its folder: the
\* page is dropped and is not requested again in the same run.
C21_FailedPageNotRetried ==
    [][\A s \in Slots :
          phase[s] = "traverse" /\ faults' # faults
             => \E k \in DOMAIN listing[s] :
                   listing[s][k].pc = "list" /\ listing'[s][k].pc = "done"]_vars

\* remote object id is below folder root, every folder on the way live
RECURSIVE Under(_, _)
Under(id, root) ==
    /\ id \in 1..Len(drive)
    /\ drive[id].state = "live"
    /\ drive[id].parent = root \/ Under(drive[id].parent, root)

\* the names on the way from folder root down to object id
RECURSIVE RelPath(_, _)
RelPath(id, root) ==
    IF drive[id].parent = root THEN <<drive[id].name>>
    ELSE Append(RelPath(drive[id].parent, root), drive[id].name)

\* the files, and the folders, below the mirror folder of session s
DescFiles(s) == {id \in 1..Len(drive) : Under(id, vaultFolderId[s]) /\ drive[id].kind # "folder"}
DescFolders(s) == {id \in 1..Len(drive) : Under(id, vaultFolderId[s]) /\ drive[id].kind = "folder"}

\* the folders pull s has requested a listing of
Listed(s) == {r[3] : r \in {q \in reqs[s] : q[1] = "list"}}

\* the traversal of pull s is over and no listing request of it failed
Traversed(s) ==
    /\ dir[s] = "pull" /\ Current(s)
    /\ phase[s] # "traverse"
    /\ \A f \in failed[s] : f[1] # "list"

\* while pull s traverses: at most K folders are listed at a time, and the
\* queue holds distinct folders of the tree, with their paths, none of which
\* was listed yet
TraversalInOrder(s) ==
    dir[s] = "pull" /\ phase[s] = "traverse" =>
        /\ Len(listing[s]) <= CONCURRENCY_LIMIT
        /\ \A j \in DOMAIN folderQueue[s] :
              LET e == folderQueue[s][j]
              IN  /\ e.id \in DescFolders(s)
                  /\ e.path = RelPath(e.id, vaultFolderId[s])
                  /\ e.id \notin Listed(s)
                  /\ \A l \in DOMAIN folderQueue[s] : folderQueue[s][l].id = e.id => l = j

\* the traversal ended with an empty queue, every folder of the tree listed
\* and no other, and the keys of the map the paths of the files of the tree
TraversalComplete(s) ==
    Traversed(s) =>
        /\ folderQueue[s] = <<>>
        /\ Listed(s) = {vaultFolderId[s]} \cup DescFolders(s)
        /\ DOMAIN driveFileMap[s] = {RelPath(id, vaultFolderId[s]) : id \in DescFiles(s)}
        /\ drivePaths[s] \in Seq(Paths) /\ Range(drivePaths[s]) = DOMAIN driveFileMap[s]

SegmentReqs(s, op, p, m) == {r \in reqs[s] : r[1] = op /\ r[2] = <<p[m]>>}

\* id is what the resolution of segment m of path p can have returned to
\* push s: undefined, or a folder with the name of the segment under the
\* parent that the search of the segment was issued with
ReturnedFor(s, p, m, id) ==
    IF m = 0 THEN id = vaultFolderId[s]
    ELSE \/ id = Undef
         \/ /\ id \in 1..Len(drive)
            /\ drive[id].kind = "folder"
            /\ drive[id].name = p[m]
            /\ \E r \in SegmentReqs(s, "search", p, m) : drive[id].parent = r[3]

\* C23: in a push the folder segments of a path are resolved in path order:
\* a segment is searched once, after every segment before it and with the id
\* returned for the one before it as parent; it is created only after its
\* search, under the same parent; the upload is issued after the search of
\* every segment, under the id returned for the last one; and the entry is
\* written only when the upload has returned the id of the uploaded file.
C23_StepsInPathOrder ==
    \A s \in Slots : dir[s] = "push" /\ Current(s) =>
        \A p \in Paths :
            LET t == task[s][p]
                n == Len(PathParts(p))
            IN  t.pc \notin {"none", "skipped"} =>
                /\ \A m \in 1..n :
                      /\ Cardinality(SegmentReqs(s, "search", p, m)) <= 1
                      /\ SegmentReqs(s, "search", p, m) # {} => m <= t.seg
                      /\ m < t.seg => SegmentReqs(s, "search", p, m) # {}
                      /\ \A r \in SegmentReqs(s, "search", p, m) :
                            ReturnedFor(s, p, m - 1, r[3])
                      /\ \A r \in SegmentReqs(s, "mkdir", p, m) :
                            r \in {<<"mkdir", q[2], q[3]>> : q \in SegmentReqs(s, "search", p, m)}
                /\ \A r \in Uploads(s, p) :
                      /\ t.pc \in {"done", "failed", "threw"}
                      /\ \A m \in 1..n : SegmentReqs(s, "search", p, m) # {}
                      /\ ReturnedFor(s, p, n, r[3])
                /\ p \in DOMAIN vaultRecord /\ p \notin DOMAIN recAtStart[s] =>
                      /\ t.pc = "done"
                      /\ \E r \in Uploads(s, p) :
                            /\ drive[vaultRecord[p].gdriveId].kind = "file"
                            /\ drive[vaultRecord[p].gdriveId].name = FileName(p)
                            /\ drive[vaultRecord[p].gdriveId].parent = r[3]

\* the file two folders down was uploaded and recorded after both folders
\* of its path were created, the second one inside the first
C23_Witness ==
    /\ dir[1] = "push" /\ Current(1)
    /\ PathDeep \in DOMAIN vaultRecord
    /\ \E q, r \in reqs[1] :
          /\ q[1] = "mkdir" /\ q[2] = <<"a">>
          /\ r[1] = "mkdir" /\ r[2] = <<"b">>
          /\ r[3] \in 1..Len(drive) /\ drive[r[3]].name = "a" /\ drive[r[3]].parent = q[3]

----------------------------------------------------------------------------
\* the folders a search for (parent, name) has to find: the folders of that
\* name directly under parent that are not in the trash
Matching(parent, name) ==
    {id \in 1..Len(drive) :
        /\ drive[id].kind = "folder" /\ drive[id].name = name
        /\ drive[id].parent = parent /\ Visible(id)}

\* session s was started after a sync that completed, and neither the vault
\* nor the remote store was changed from outside since that sync completed
Untouched(s) == basis[s].kind # "none" /\ basis[s].at = now - 1

\* session s has resolved its mirror folder
VaultResolved(s) == phase[s] \in {"batch", "sweep", "traverse", "local_sweep", "done"}

\* C24: the search-or-create resolver.  A resolution goes on to its create
\* request if and only if its search returned no folder of that name under
\* that parent outside the trash; when the search finds one, the resolution
\* returns the id of a found folder and the remote store is left as it was;
\* a create request is only issued by a resolution whose search found
\* nothing.  Two resolutions of the mirror folder run one after the other,
\* with no change of the remote store in between, return the same id, and the
\* second one issues no create request.
C24_SearchOrCreate ==
    /\ [](\A s \in Slots :
            Untouched(s) /\ VaultResolved(s) /\ basis[s].vfid # Undef =>
               /\ vaultFolderId[s] = basis[s].vfid
               /\ <<"mkdir", <<vaultName>>, RootId>> \notin reqs[s]
               /\ \A id \in made[s] : drive[id].name # vaultName)
    /\ [][\A s \in Slots :
             /\ phase[s] = "vault_search" /\ phase'[s] \notin {"vault_search", "aborted"} =>
                   LET m == Matching(RootId, vaultName)
                   IN  /\ phase'[s] = "vault_create" <=> m = {}
                       /\ m # {} => vaultFolderId'[s] \in m /\ drive' = drive
             /\ phase[s] = "vault_create" /\ phase'[s] # "vault_create" =>
                   <<"mkdir", <<vaultName>>, RootId>> \in reqs'[s]
             /\ \A p \in Paths :
                   LET t == task[s][p]
                   IN  /\ t.pc = "search" /\ task'[s][p].pc \notin {"search", "threw"}
                         /\ task'[s][p].seg = t.seg =>
                            LET m == Matching(t.cur, p[t.seg])
                            IN  /\ task'[s][p].pc = "mkdir" <=> m = {}
                                /\ m # {} => task'[s][p].cur \in m /\ drive' = drive
                       /\ t.pc = "search" /\ task'[s][p].seg = t.seg + 1 =>
                            /\ task'[s][p].cur \in Matching(t.cur, p[t.seg])
                            /\ drive' = drive
                       /\ t.pc = "mkdir" /\ task'[s][p].pc # "mkdir" =>
                            <<"mkdir", <<p[t.seg]>>, t.cur>> \in reqs'[s]
             /\ \A r \in reqs'[s] \ reqs[s] :
                   r[1] = "mkdir" =>
                      \/ phase[s] = "vault_create" /\ r = <<"mkdir", <<vaultName>>, RootId>>
                      \/ \E p \in Paths :
                            /\ task[s][p].pc = "mkdir"
                            /\ r = <<"mkdir", <<p[task[s][p].seg]>>, task[s][p].cur>>]_vars

\* a second sync has searched for the mirror folder that the sync before it
\* had resolved, has found it, and has created nothing
C24_Witness ==
    /\ Untouched(1) /\ VaultResolved(1)
    /\ basis[1].vfid # Undef /\ vaultFolderId[1] = basis[1].vfid
    /\ <<"search", <<vaultName>>, RootId>> \in reqs[1]
    /\ made[1] = {}

\* C25: a pull never deletes a live file.  Every local file a pull has
\* deleted had an entry whose remote object is absent from the mirror tree
\* of the selected root folder: deleted, in the trash, or below a folder that
\* is in the trash.
C25_PullNeverDeletesLive ==
    \A s \in Slots : dir[s] = "pull" =>
        \A p \in Paths :
            del[s][p].pc = "done" =>
                /\ p \in DOMAIN recAtStart[s]
                /\ ~Visible(recAtStart[s][p].gdriveId)

\* C26: alternating push and pull stabilises.  A pull that follows a push
\* that completed without failure, with nothing changed from outside in
\* between, issues no download and no export request for a file that push
\* left recorded; a push that follows such a pull issues no upload request
\* for a file that pull left recorded.
C26_AlternationStabilises ==
    \A s \in Slots :
        Untouched(s) /\ basis[s].failed = {} =>
            /\ basis[s].kind = "push" /\ dir[s] = "pull" =>
                  \A p \in DOMAIN basis[s].rec : Downloads(s, p) = {}
            /\ basis[s].kind = "pull" /\ dir[s] = "push" =>
                  \A p \in DOMAIN basis[s].rec : Uploads(s, p) = {}

\* session s is a pull that was started after a pull that completed with no
\* failure, with nothing changed from outside in between
SecondPull(s) ==
    /\ dir[s] = "pull" /\ basis[s].kind = "pull" /\ basis[s].failed = {}
    /\ Untouched(s)

C28_RecordMatchesRemote ==
    \A s \in Slots : dir[s] = "pull" /\ JustDone(s) /\ failed[s] = {} =>
        \A p \in DOMAIN vaultRecord :
            /\ p \in DOMAIN driveFileMap[s]
            /\ vaultRecord[p].gdriveId = driveFileMap[s][p].id

\* the files the two sessions have created on the remote side and that were
\* not deleted since
CreatedFiles ==
    {id \in made[1] \cup made[2] : drive[id].kind # "folder" /\ drive[id].state = "live"}

\* C29: overlapping sessions create no orphan.  When a push and a second
\* sync that was started while that push was in flight have both ended, the
\* never-synced file z.md has exactly one remote file created for it, and
\* every remote file the two sessions created has its id in an entry of the
\* SyncRecord.
C29_NoOrphan ==
    dir[2] # "none" /\ Quiescent =>
        /\ Cardinality({id \in CreatedFiles : drive[id].name = FileName(PathZ)}) = 1
        /\ \A id \in CreatedFiles :
              \E p \in DOMAIN vaultRecord : vaultRecord[p].gdriveId = id

====
